---- MODULE Spec2Model ----
(***************************************************************************)
(* Model of create_watertight_mesh (generate_leaf_stl.py): the heightfield *)
(* to closed-triangle-mesh construction over a downsampled occupancy grid. *)
(*                                                                         *)
(* Units.  alpha and height_map values are held in tenths (0.3 is 3);      *)
(* z coordinates are held in hundredths (tenths of height times tenths of  *)
(* scale_z); x is held in multiples of dx/2 and y in multiples of dy/2,    *)
(* so x = (j - w_small/2)*dx is the integer 2*j - w_small.  dx and dy are  *)
(* scale_xy / w_small and scale_xy / h_small with scale_xy > 0, hence      *)
(* positive, and the sign of every cross product is kept.                  *)
(* Pixel, cell and vertex indices are 0-based as in the source.            *)
(*                                                                         *)
(* Also a model of create_disc_floret_mesh (generate_disc_floret_stl.py):  *)
(* the Vogel-spiral placement of florets on the convex disc.  Its real     *)
(* numbers are exact rationals <<numerator, denominator>>, and a square    *)
(* root is kept as coef * sqrt(rad); floating-point rounding is left out.  *)
(***************************************************************************)
EXTENDS Integers, Sequences, FiniteSets, TLC

VARIABLES height_map, alpha, h, w, pc, h_small, w_small, alpha_small,
          vertices, vertex_idx, faces, repair

\* the state of create_disc_floret_mesh; rng is the global numpy generator
VARIABLES diameter_mm, base_height, floret_density, rng, dpc, radius,
          num_florets, base, floret_radius, floret_height, florets, disc_floret

dvars == <<diameter_mm, base_height, floret_density, rng, dpc, radius,
           num_florets, base, floret_radius, floret_height, florets, disc_floret>>

vars == <<height_map, alpha, h, w, pc, h_small, w_small, alpha_small,
          vertices, vertex_idx, faces, repair, dvars>>

\* ---------------------------------------------------------------- constants
step == 3
alpha_threshold == 3
scale_z == 35
base_thickness == 100

\* ------------------------------------------------------------------- bounds
\* exhaustive family: every occupancy of every grid with at most this many cells
SmallCells == 9
\* notched family: grids up to MaxRows x MaxCols, full except one rectangle
MaxRows == 5
MaxCols == 5
\* sampling family: source images up to MaxSrc x MaxSrc pixels
MaxSrc == 7

\* ------------------------------------------------------------------ helpers
Min(a, b) == IF a < b THEN a ELSE b

Cells(r, c) == (0 .. r - 1) \X (0 .. c - 1)

AlphaVals == {alpha_threshold, alpha_threshold + 1}

\* a height map: constant 1.0, or values 0.0 .. 1.0 varying from pixel to pixel
HeightImage(H, W, sel) ==
    [p \in Cells(H, W) |-> IF sel = "flat" THEN 10 ELSE (p[1] + 2 * p[2]) % 11]

\* an alpha channel in which every cell of occ is a step x step block of pixels
BlockImage(r, c, occ) ==
    [p \in Cells(step * r, step * c) |->
        IF occ[<<p[1] \div step, p[2] \div step>>]
        THEN alpha_threshold + 1 ELSE alpha_threshold]

\* an alpha channel given on the pixels whose row and column are multiples of
\* step (lat), every other pixel holding off
LatticeImage(H, W, lat, off) ==
    [p \in Cells(H, W) |->
        IF p[1] % step = 0 /\ p[2] % step = 0
        THEN lat[<<p[1] \div step, p[2] \div step>>] ELSE off]

CeilDiv(n, d) == (n + d - 1) \div d

SmallDims == {d \in (1 .. SmallCells) \X (1 .. SmallCells) : d[1] * d[2] <= SmallCells}

SmallGrids ==
    UNION {{<<d[1], d[2], occ>> : occ \in [Cells(d[1], d[2]) -> BOOLEAN]} : d \in SmallDims}

NotchedGrids ==
    UNION {UNION {{<<r, c, [p \in Cells(r, c) |->
                                ~(r0 <= p[1] /\ p[1] < r1 /\ c0 <= p[2] /\ p[2] < c1)]>> :
                     <<r0, r1, c0, c1>> \in
                        {b \in (0 .. r) \X (0 .. r) \X (0 .. c) \X (0 .. c) :
                            b[1] < b[2] /\ b[3] < b[4]}}
                  : c \in 1 .. MaxCols} : r \in 1 .. MaxRows}

\* ------------------------------------------------------------------- source
\* OrigIndex sampling one pixel further on
OrigIndexNext(i, n) == Min(i * step + 1, n - 1)

\* lines 60-61 and 76-77: min(i * step, h - 1)
OrigIndex(i, n) == Min(i * step, n - 1)

\* line 62: alpha_small[i, j] = alpha[orig_i, orig_j]
SampleAlpha(i, j) == alpha[<<OrigIndex(i, h), OrigIndex(j, w)>>]

\* HasVertex with >= for >
HasVertexAtThreshold(i, j) == alpha_small[<<i, j>>] >= alpha_threshold

\* line 74: alpha_small[i, j] > alpha_threshold
HasVertex(i, j) == alpha_small[<<i, j>>] > alpha_threshold

\* VertexPair appending the bottom vertex first
VertexPairBottomFirst(i, j) ==
    << <<2 * j - w_small, 2 * i - h_small, -base_thickness>>,
       <<2 * j - w_small, 2 * i - h_small,
         height_map[<<OrigIndex(i, h), OrigIndex(j, w)>>] * scale_z>> >>

\* lines 80-91: the top vertex, then the bottom vertex
VertexPair(i, j) ==
    << <<2 * j - w_small, 2 * i - h_small,
         height_map[<<OrigIndex(i, h), OrigIndex(j, w)>>] * scale_z>>,
       <<2 * j - w_small, 2 * i - h_small, -base_thickness>> >>

\* IndexPair taking len(vertices) after the append instead of before it
IndexPairAfterAppend(i, j, n) ==
    (<<i, j, "top">> :> n + 1) @@ (<<i, j, "bottom">> :> n + 2)

\* lines 85-92: indices given to the pair appended when n vertices exist
IndexPair(i, j, n) ==
    (<<i, j, "top">> :> n) @@ (<<i, j, "bottom">> :> n + 1)

\* lines 73-92: the vertices appended by the first n iterations of the loop
\* over j, within iteration i of the loop over i
RECURSIVE RowVertices(_, _)
RowVertices(i, n) ==
    IF n = 0 THEN << >>
    ELSE RowVertices(i, n - 1) \o
         (IF HasVertex(i, n - 1) THEN VertexPair(i, n - 1) ELSE << >>)

\* lines 72-92: the vertex list after the first m iterations of the loop over i
RECURSIVE VerticesAfter(_)
VerticesAfter(m) ==
    IF m = 0 THEN << >> ELSE VerticesAfter(m - 1) \o RowVertices(m - 1, w_small)

\* lines 73-92: the entries put in vertex_idx by the first n iterations of the
\* loop over j, within iteration i of the loop over i
RECURSIVE RowVertexIdx(_, _)
RowVertexIdx(i, n) ==
    IF n = 0 THEN << >>
    ELSE IF HasVertex(i, n - 1)
         THEN IndexPair(i, n - 1, Len(VerticesAfter(i)) + Len(RowVertices(i, n - 1)))
              @@ RowVertexIdx(i, n - 1)
         ELSE RowVertexIdx(i, n - 1)

\* lines 72-92: the dict vertex_idx after the first m iterations of the loop over i
RECURSIVE VertexIdxAfter(_)
VertexIdxAfter(m) ==
    IF m = 0 THEN << >> ELSE RowVertexIdx(m - 1, w_small) @@ VertexIdxAfter(m - 1)

\* lines 97-99
is_leaf_cell(i, j) ==
    /\ i >= 0 /\ i < h_small /\ j >= 0 /\ j < w_small
    /\ alpha_small[<<i, j>>] > alpha_threshold

\* lines 105-106
ActiveQuad(i, j) ==
    /\ is_leaf_cell(i, j) /\ is_leaf_cell(i, j + 1)
    /\ is_leaf_cell(i + 1, j) /\ is_leaf_cell(i + 1, j + 1)

\* SurfaceFaces with the first top triangle wound the other way
SurfaceFacesFlipped(i, j) ==
    LET v00_t == vertex_idx[<<i, j, "top">>]
        v01_t == vertex_idx[<<i, j + 1, "top">>]
        v10_t == vertex_idx[<<i + 1, j, "top">>]
        v11_t == vertex_idx[<<i + 1, j + 1, "top">>]
        v00_b == vertex_idx[<<i, j, "bottom">>]
        v01_b == vertex_idx[<<i, j + 1, "bottom">>]
        v10_b == vertex_idx[<<i + 1, j, "bottom">>]
        v11_b == vertex_idx[<<i + 1, j + 1, "bottom">>]
    IN  << <<v00_t, v11_t, v01_t>>, <<v00_t, v11_t, v10_t>>,
           <<v00_b, v11_b, v01_b>>, <<v00_b, v10_b, v11_b>> >>

\* lines 119-125
SurfaceFaces(i, j) ==
    LET v00_t == vertex_idx[<<i, j, "top">>]
        v01_t == vertex_idx[<<i, j + 1, "top">>]
        v10_t == vertex_idx[<<i + 1, j, "top">>]
        v11_t == vertex_idx[<<i + 1, j + 1, "top">>]
        v00_b == vertex_idx[<<i, j, "bottom">>]
        v01_b == vertex_idx[<<i, j + 1, "bottom">>]
        v10_b == vertex_idx[<<i + 1, j, "bottom">>]
        v11_b == vertex_idx[<<i + 1, j + 1, "bottom">>]
    IN  << <<v00_t, v01_t, v11_t>>, <<v00_t, v11_t, v10_t>>,
           <<v00_b, v11_b, v01_b>>, <<v00_b, v10_b, v11_b>> >>

\* lines 103-125: the faces appended by the first n iterations of the loop over
\* j, within iteration i of the loop over i
RECURSIVE RowFaces(_, _)
RowFaces(i, n) ==
    IF n <= 0 THEN << >>
    ELSE RowFaces(i, n - 1) \o
         (IF ActiveQuad(i, n - 1) THEN SurfaceFaces(i, n - 1) ELSE << >>)

\* lines 102-125: the face list after the first m iterations of the loop over i
RECURSIVE FacesAfter(_)
FacesAfter(m) ==
    IF m <= 0 THEN << >> ELSE FacesAfter(m - 1) \o RowFaces(m - 1, w_small - 1)

\* lines 130-131
curr_quad(i, j) ==
    /\ is_leaf_cell(i, j) /\ is_leaf_cell(i, j + 1)
    /\ is_leaf_cell(i + 1, j) /\ is_leaf_cell(i + 1, j + 1)

\* TopBoundary with "or" for "and" between the two cells above
TopBoundaryEither(i, j) ==
    i = 0 \/ ~(is_leaf_cell(i - 1, j) \/ is_leaf_cell(i - 1, j + 1))

\* line 149
TopBoundary(i, j) ==
    i = 0 \/ ~(is_leaf_cell(i - 1, j) /\ is_leaf_cell(i - 1, j + 1))

\* line 154
BottomBoundary(i, j) ==
    i = h_small - 2 \/ ~(is_leaf_cell(i + 2, j) /\ is_leaf_cell(i + 2, j + 1))

\* line 159
LeftBoundary(i, j) ==
    j = 0 \/ ~(is_leaf_cell(i, j - 1) /\ is_leaf_cell(i + 1, j - 1))

\* line 164
RightBoundary(i, j) ==
    j = w_small - 2 \/ ~(is_leaf_cell(i, j + 2) /\ is_leaf_cell(i + 1, j + 2))

\* lines 150-151
TopWall(i, j) ==
    LET v00_t == vertex_idx[<<i, j, "top">>]
        v01_t == vertex_idx[<<i, j + 1, "top">>]
        v00_b == vertex_idx[<<i, j, "bottom">>]
        v01_b == vertex_idx[<<i, j + 1, "bottom">>]
    IN  << <<v00_b, v01_t, v00_t>>, <<v00_b, v01_b, v01_t>> >>

\* BottomWall appending its first triangle only
BottomWallSingle(i, j) ==
    LET v10_t == vertex_idx[<<i + 1, j, "top">>]
        v11_t == vertex_idx[<<i + 1, j + 1, "top">>]
        v10_b == vertex_idx[<<i + 1, j, "bottom">>]
    IN  << <<v10_b, v10_t, v11_t>> >>

\* lines 155-156
BottomWall(i, j) ==
    LET v10_t == vertex_idx[<<i + 1, j, "top">>]
        v11_t == vertex_idx[<<i + 1, j + 1, "top">>]
        v10_b == vertex_idx[<<i + 1, j, "bottom">>]
        v11_b == vertex_idx[<<i + 1, j + 1, "bottom">>]
    IN  << <<v10_b, v10_t, v11_t>>, <<v10_b, v11_t, v11_b>> >>

\* lines 160-161
LeftWall(i, j) ==
    LET v00_t == vertex_idx[<<i, j, "top">>]
        v10_t == vertex_idx[<<i + 1, j, "top">>]
        v00_b == vertex_idx[<<i, j, "bottom">>]
        v10_b == vertex_idx[<<i + 1, j, "bottom">>]
    IN  << <<v00_b, v10_t, v00_t>>, <<v00_b, v10_b, v10_t>> >>

\* lines 165-166
RightWall(i, j) ==
    LET v01_t == vertex_idx[<<i, j + 1, "top">>]
        v11_t == vertex_idx[<<i + 1, j + 1, "top">>]
        v01_b == vertex_idx[<<i, j + 1, "bottom">>]
        v11_b == vertex_idx[<<i + 1, j + 1, "bottom">>]
    IN  << <<v01_b, v01_t, v11_t>>, <<v01_b, v11_t, v11_b>> >>

\* lines 147-166: the walls of one active quad, in the order they are appended
QuadWalls(i, j) ==
    (IF TopBoundary(i, j) THEN TopWall(i, j) ELSE << >>) \o
    (IF BottomBoundary(i, j) THEN BottomWall(i, j) ELSE << >>) \o
    (IF LeftBoundary(i, j) THEN LeftWall(i, j) ELSE << >>) \o
    (IF RightBoundary(i, j) THEN RightWall(i, j) ELSE << >>)

\* lines 129-166: the faces appended by the first n iterations of the loop over
\* j, within iteration i of the loop over i
RECURSIVE RowWalls(_, _)
RowWalls(i, n) ==
    IF n <= 0 THEN << >>
    ELSE RowWalls(i, n - 1) \o
         (IF curr_quad(i, n - 1) THEN QuadWalls(i, n - 1) ELSE << >>)

\* lines 128-166: the faces appended by the first m iterations of the loop over i
RECURSIVE WallsAfter(_)
WallsAfter(m) ==
    IF m <= 0 THEN << >> ELSE WallsAfter(m - 1) \o RowWalls(m - 1, w_small - 1)

\* the undirected edges of a face
FaceEdges(f) == {{f[1], f[2]}, {f[2], f[3]}, {f[3], f[1]}}

\* the number of faces of fs an undirected edge lies in
EdgeCount(fs, e) == Cardinality({m \in DOMAIN fs : e \in FaceEdges(fs[m])})

\* every edge of fs lies in exactly two faces
EdgeManifold(fs) ==
    \A k \in DOMAIN fs : \A e \in FaceEdges(fs[k]) : EdgeCount(fs, e) = 2

\* line 175, mesh.is_watertight: a mesh without faces is not watertight
is_watertight(fs) == Len(fs) > 0 /\ EdgeManifold(fs)

\* ------------------------------------------------------------------ actions
\* lines 47-62
Downsample ==
    /\ pc = "downsample"
    /\ h_small' = h \div step
    /\ w_small' = w \div step
    /\ alpha_small' = [c \in Cells(h \div step, w \div step) |-> SampleAlpha(c[1], c[2])]
    /\ pc' = "scales"
    /\ UNCHANGED dvars
    /\ UNCHANGED <<height_map, alpha, h, w, vertices, vertex_idx, faces, repair>>

\* lines 64-66: scale_xy / w_small and scale_xy / h_small raise ZeroDivisionError
\* on an empty grid
CalculateScales ==
    /\ pc = "scales"
    /\ pc' = IF w_small = 0 \/ h_small = 0 THEN "error" ELSE "vertices"
    /\ UNCHANGED dvars
    /\ UNCHANGED <<height_map, alpha, h, w, h_small, w_small, alpha_small,
                   vertices, vertex_idx, faces, repair>>

\* lines 68-92
CreateVertices ==
    /\ pc = "vertices"
    /\ vertices' = VerticesAfter(h_small)
    /\ vertex_idx' = VertexIdxAfter(h_small)
    /\ pc' = "faces"
    /\ UNCHANGED dvars
    /\ UNCHANGED <<height_map, alpha, h, w, h_small, w_small, alpha_small, faces, repair>>

\* lines 94-125
CreateFaces ==
    /\ pc = "faces"
    /\ faces' = FacesAfter(h_small - 1)
    /\ pc' = "walls"
    /\ UNCHANGED dvars
    /\ UNCHANGED <<height_map, alpha, h, w, h_small, w_small, alpha_small,
                   vertices, vertex_idx, repair>>

\* lines 127-166
CreateWalls ==
    /\ pc = "walls"
    /\ faces' = faces \o WallsAfter(h_small - 1)
    /\ pc' = "mesh"
    /\ UNCHANGED dvars
    /\ UNCHANGED <<height_map, alpha, h, w, h_small, w_small, alpha_small,
                   vertices, vertex_idx, repair>>

\* lines 168-178: repair records that trimesh.repair.fill_holes was called;
\* faces stays the list the function itself emitted
BuildMesh ==
    /\ pc = "mesh"
    /\ repair' = ~is_watertight(faces)
    /\ pc' = "done"
    /\ UNCHANGED dvars
    /\ UNCHANGED <<height_map, alpha, h, w, h_small, w_small, alpha_small,
                   vertices, vertex_idx, faces>>

Next ==
    \/ Downsample
    \/ CalculateScales
    \/ CreateVertices
    \/ CreateFaces
    \/ CreateWalls
    \/ BuildMesh

\* create_disc_floret_mesh is not running
DiscIdle ==
    /\ diameter_mm = <<0, 1>>
    /\ base_height = <<0, 1>>
    /\ floret_density = <<0, 1>>
    /\ rng = [seed |-> 0, count |-> 0]
    /\ dpc = "idle"
    /\ radius = <<0, 1>>
    /\ num_florets = 0
    /\ base = << >>
    /\ floret_radius = <<0, 1>>
    /\ floret_height = <<0, 1>>
    /\ florets = << >>
    /\ disc_floret = << >>

\* the state on entry to create_watertight_mesh, line 45
Entry(H, W, a, hm) ==
    /\ DiscIdle
    /\ h = H
    /\ w = W
    /\ alpha = a
    /\ height_map = hm
    /\ pc = "downsample"
    /\ h_small = 0
    /\ w_small = 0
    /\ alpha_small = << >>
    /\ vertices = << >>
    /\ vertex_idx = << >>
    /\ faces = << >>
    /\ repair = FALSE

\* occupancy grids: every small grid and every notched grid
Init ==
    \E g \in SmallGrids \cup NotchedGrids :
        Entry(step * g[1], step * g[2], BlockImage(g[1], g[2], g[3]),
              HeightImage(step * g[1], step * g[2], "ramp"))

Spec == Init /\ [][Next]_vars

\* source images of every size, sampled pixels and the others chosen apart
InitGrid ==
    \E H \in 1 .. MaxSrc, W \in 1 .. MaxSrc, off \in AlphaVals :
        \E lat \in [Cells(CeilDiv(H, step), CeilDiv(W, step)) -> AlphaVals] :
            Entry(H, W, LatticeImage(H, W, lat, off), HeightImage(H, W, "ramp"))

SpecGrid == InitGrid /\ [][Next]_vars

\* sources whose downsampled grid is 10 x 10, fully occupied, of height 1.0
InitTen ==
    \E rh \in 0 .. step - 1, rw \in 0 .. step - 1, off \in AlphaVals :
        Entry(10 * step + rh, 10 * step + rw,
              LatticeImage(10 * step + rh, 10 * step + rw,
                           [c \in Cells(11, 11) |-> alpha_threshold + 1], off),
              HeightImage(10 * step + rh, 10 * step + rw, "flat"))

SpecTen == InitTen /\ [][Next]_vars

\* ------------------------------------------------------- vocabulary of claims
\* cell (i, j) of the downsampled grid is occupied
Occupied(i, j) ==
    <<i, j>> \in DOMAIN alpha_small /\ alpha_small[<<i, j>>] > alpha_threshold

OccupiedCells == {c \in DOMAIN alpha_small : Occupied(c[1], c[2])}

\* quad (i, j) has the corner cells (i,j), (i,j+1), (i+1,j), (i+1,j+1)
Corners(i, j) == {<<i, j>>, <<i, j + 1>>, <<i + 1, j>>, <<i + 1, j + 1>>}

Active(i, j) == \A c \in Corners(i, j) : Occupied(c[1], c[2])

ActiveQuads == {q \in DOMAIN alpha_small : Active(q[1], q[2])}

\* the neighbour of quad q across its edge e
Neighbour(q, e) ==
    CASE e = "top" -> <<q[1] - 1, q[2]>>
      [] e = "bottom" -> <<q[1] + 1, q[2]>>
      [] e = "left" -> <<q[1], q[2] - 1>>
      [] e = "right" -> <<q[1], q[2] + 1>>

\* the two cells on edge e of quad q
EdgeCells(q, e) ==
    CASE e = "top" -> {<<q[1], q[2]>>, <<q[1], q[2] + 1>>}
      [] e = "bottom" -> {<<q[1] + 1, q[2]>>, <<q[1] + 1, q[2] + 1>>}
      [] e = "left" -> {<<q[1], q[2]>>, <<q[1] + 1, q[2]>>}
      [] e = "right" -> {<<q[1], q[2] + 1>>, <<q[1] + 1, q[2] + 1>>}

EdgeNames == {"top", "bottom", "left", "right"}

\* edge e of the active quad q borders an inactive or missing quad
IsBoundary(q, e) == ~Active(Neighbour(q, e)[1], Neighbour(q, e)[2])

BoundaryPairs == {x \in ActiveQuads \X EdgeNames : IsBoundary(x[1], x[2])}

\* the number of occupied cells visited before cell c by the row-major loops
Rank(c) ==
    Cardinality({d \in OccupiedCells : d[1] < c[1] \/ (d[1] = c[1] /\ d[2] < c[2])})

\* the vertices that vertex_idx gives the occupied cell c
TopOf(c) == vertex_idx[<<c[1], c[2], "top">>]
BottomOf(c) == vertex_idx[<<c[1], c[2], "bottom">>]

\* the keys (i, j, surface) of vertex_idx for the cells cs
KeysOf(cs) == {<<c[1], c[2], sf>> : c \in cs, sf \in {"top", "bottom"}}

TopVertices == {TopOf(c) : c \in OccupiedCells}

FaceVerts(f) == {f[1], f[2], f[3]}

\* the faces that lie on the wall over the cells cs: between their four vertices
FacesOnWall(cs) ==
    {k \in DOMAIN faces :
        FaceVerts(faces[k]) \subseteq UNION {{TopOf(c), BottomOf(c)} : c \in cs}}

\* the faces that lie on the top, or on the bottom, of quad q
TopFacesOf(q) ==
    {k \in DOMAIN faces :
        FaceVerts(faces[k]) \subseteq {TopOf(c) : c \in Corners(q[1], q[2])}}

BottomFacesOf(q) ==
    {k \in DOMAIN faces :
        FaceVerts(faces[k]) \subseteq {BottomOf(c) : c \in Corners(q[1], q[2])}}

\* the faces with three top or three bottom vertices
SurfaceFaceSet ==
    LET tops == TopVertices
    IN  {k \in DOMAIN faces :
            FaceVerts(faces[k]) \subseteq tops \/ FaceVerts(faces[k]) \cap tops = {}}

WallFaceSet == DOMAIN faces \ SurfaceFaceSet

DirEdges(f) == {<<f[1], f[2]>>, <<f[2], f[3]>>, <<f[3], f[1]>>}

AllEdges == UNION {FaceEdges(faces[k]) : k \in DOMAIN faces}

ReferencedVertices == UNION {FaceVerts(faces[k]) : k \in DOMAIN faces}

Pos(v) == vertices[v + 1]

Sub(a, b) == <<a[1] - b[1], a[2] - b[2], a[3] - b[3]>>

Cross(a, b) ==
    <<a[2] * b[3] - a[3] * b[2], a[3] * b[1] - a[1] * b[3], a[1] * b[2] - a[2] * b[1]>>

\* the normal of a face by the right-hand rule, in units of (dy/2, dx/2, dx*dy/4)
Normal(f) == Cross(Sub(Pos(f[2]), Pos(f[1])), Sub(Pos(f[3]), Pos(f[1])))

\* the normal points along the outward direction of edge e and nowhere else
PointsOutward(n, e) ==
    CASE e = "top" -> n[1] = 0 /\ n[2] < 0 /\ n[3] = 0
      [] e = "bottom" -> n[1] = 0 /\ n[2] > 0 /\ n[3] = 0
      [] e = "left" -> n[1] < 0 /\ n[2] = 0 /\ n[3] = 0
      [] e = "right" -> n[1] > 0 /\ n[2] = 0 /\ n[3] = 0

\* quads sharing an edge
Adjacent(p, q) ==
    (p[1] = q[1] /\ (p[2] - q[2] = 1 \/ q[2] - p[2] = 1)) \/
    (p[2] = q[2] /\ (p[1] - q[1] = 1 \/ q[1] - p[1] = 1))

\* the members of region reached from S through adjacent members
RECURSIVE Reach(_, _)
Reach(S, region) ==
    LET T == S \cup {q \in region : \E p \in S : Adjacent(p, q)}
    IN  IF T = S THEN S ELSE Reach(T, region)

RegionConnected(region) ==
    region = {} \/ Reach({CHOOSE q \in region : TRUE}, region) = region

\* the quads that are not active, with the ring of missing quads round the grid
Outside == ((-1 .. h_small - 1) \X (-1 .. w_small - 1)) \ ActiveQuads

\* V - E + F, over the vertices that faces reference
EulerReferenced == Cardinality(ReferencedVertices) - Cardinality(AllEdges) + Len(faces)

\* V - E + F, over the vertex list
EulerEmitted == Len(vertices) - Cardinality(AllEdges) + Len(faces)

\* ------------------------------------------------------------------- claims
\* C1: for every occupancy grid, every undirected edge of the face list emitted
\* before hole filling lies in exactly two faces, also where two active quads
\* touch at a single corner cell.
C1_WatertightByConstruction ==
    pc = "done" => EdgeManifold(faces)

\* C2: for every active quad and each of its edges that borders an inactive or
\* missing quad, both wall triangles on that edge have their normal pointing
\* away from the quad: -y top, +y bottom, -x left, +x right.
C2_WallNormalsOutward ==
    pc = "done" =>
        \A x \in BoundaryPairs :
            \A k \in FacesOnWall(EdgeCells(x[1], x[2])) :
                PointsOutward(Normal(faces[k]), x[2])

\* C3: no directed edge (a, b) appears in more than one face, so two faces
\* sharing an edge traverse it in opposite directions.
C3_WindingConsistent ==
    pc = "done" =>
        \A k, m \in DOMAIN faces :
            k # m => DirEdges(faces[k]) \cap DirEdges(faces[m]) = {}

\* C4: every edge of an active quad carries exactly two wall triangles when the
\* quad across it is inactive or missing and none when it is active, and the
\* wall faces number twice the (active quad, boundary edge) pairs.
C4_WallPerBoundaryEdge ==
    pc = "done" =>
        /\ \A q \in ActiveQuads : \A e \in EdgeNames :
               Cardinality(FacesOnWall(EdgeCells(q, e))) =
                   IF IsBoundary(q, e) THEN 2 ELSE 0
        /\ Len(faces) - 4 * Cardinality(ActiveQuads) = 2 * Cardinality(BoundaryPairs)
        /\ Cardinality(WallFaceSet) = 2 * Cardinality(BoundaryPairs)

C4_Witness ==
    /\ pc = "done"
    /\ \E q \in ActiveQuads : ~IsBoundary(q, "top") /\ IsBoundary(q, "left")
    /\ \E q \in ActiveQuads :
           /\ Occupied(q[1], q[2] + 2) /\ ~Occupied(q[1] + 1, q[2] + 2)
           /\ IsBoundary(q, "right")

\* C5: every active quad has exactly the top triangles [v00,v01,v11] and
\* [v00,v11,v10], counter-clockwise (normal z > 0), and two bottom triangles,
\* clockwise (normal z < 0), all four on the (i,j)-(i+1,j+1) diagonal.
C5_SurfaceOrientation ==
    pc = "done" =>
        \A q \in ActiveQuads :
            LET v00 == <<q[1], q[2]>>
                v01 == <<q[1], q[2] + 1>>
                v10 == <<q[1] + 1, q[2]>>
                v11 == <<q[1] + 1, q[2] + 1>>
            IN  /\ {faces[k] : k \in TopFacesOf(q)} =
                       {<<TopOf(v00), TopOf(v01), TopOf(v11)>>,
                        <<TopOf(v00), TopOf(v11), TopOf(v10)>>}
                /\ Cardinality(TopFacesOf(q)) = 2
                /\ Cardinality(BottomFacesOf(q)) = 2
                /\ \A k \in TopFacesOf(q) : Normal(faces[k])[3] > 0
                /\ \A k \in BottomFacesOf(q) :
                       /\ Normal(faces[k])[3] < 0
                       /\ {BottomOf(v00), BottomOf(v11)} \subseteq FaceVerts(faces[k])

C5_Witness ==
    /\ pc = "done"
    /\ Cardinality(ActiveQuads) >= 2
    /\ \E q \in ActiveQuads :
           Pos(TopOf(<<q[1], q[2]>>))[3] # Pos(TopOf(<<q[1] + 1, q[2] + 1>>))[3]

\* C6 as claimed: every grid with an active quad whose mesh needs no hole
\* filling has V - E + F = 2, whatever the shape of its active region.
C6_EulerTwoAllGrids ==
    (pc = "done" /\ ActiveQuads # {} /\ ~repair) => EulerReferenced = 2

\* C6 as amended: V - E + F = 2 when, besides, the active quads form one
\* edge-connected region, enclose no inactive quad, and every occupied cell is
\* a corner of an active quad.
C6_EulerTwoSimpleRegion ==
    (/\ pc = "done" /\ ActiveQuads # {} /\ ~repair
     /\ RegionConnected(ActiveQuads)
     /\ RegionConnected(Outside)
     /\ \A c \in OccupiedCells : \E q \in ActiveQuads : c \in Corners(q[1], q[2]))
    => EulerEmitted = 2 /\ EulerReferenced = 2

C6_Witness ==
    /\ pc = "done" /\ ~repair
    /\ Cardinality(ActiveQuads) >= 3
    /\ RegionConnected(ActiveQuads)
    /\ RegionConnected(Outside)
    /\ \A c \in OccupiedCells : \E q \in ActiveQuads : c \in Corners(q[1], q[2])
    /\ \E c \in DOMAIN alpha_small : ~Occupied(c[1], c[2])

\* C7 as claimed: the downsampled grid has shape (ceil(H/S), ceil(W/S)) and
\* cell (i, j) is occupied iff alpha[min(i*S, H-1), min(j*S, W-1)] > threshold,
\* for every H, W >= 1.
C7_GridShapeCeil ==
    pc # "downsample" =>
        /\ h_small = CeilDiv(h, step)
        /\ w_small = CeilDiv(w, step)
        /\ DOMAIN alpha_small = Cells(CeilDiv(h, step), CeilDiv(w, step))
        /\ \A c \in Cells(CeilDiv(h, step), CeilDiv(w, step)) :
               is_leaf_cell(c[1], c[2]) <=>
                   alpha[<<Min(c[1] * step, h - 1), Min(c[2] * step, w - 1)>>]
                       > alpha_threshold

\* C7 as amended: the grid has shape (floor(H/S), floor(W/S)); cell (i, j) is
\* occupied iff alpha[i*S, j*S] > threshold, the clamp to H-1 and W-1 never
\* taking effect; an empty grid (H < S or W < S) ends in ZeroDivisionError.
C7_GridShapeFloor ==
    pc # "downsample" =>
        /\ h_small = h \div step
        /\ w_small = w \div step
        /\ DOMAIN alpha_small = Cells(h \div step, w \div step)
        /\ \A c \in Cells(h \div step, w \div step) :
               /\ c[1] * step <= h - 1
               /\ c[2] * step <= w - 1
               /\ is_leaf_cell(c[1], c[2]) <=>
                      alpha[<<c[1] * step, c[2] * step>>] > alpha_threshold
        /\ (pc = "error") <=> (pc # "scales" /\ (h < step \/ w < step))

C7_Witness ==
    /\ pc = "done"
    /\ h % step # 0 /\ w % step # 0
    /\ h_small >= 2 /\ w_small >= 2
    /\ is_leaf_cell(1, 1) /\ ~is_leaf_cell(0, 1)
    /\ alpha[<<h - 1, w - 1>>] # alpha[<<step, step>>]

\* C8: the fully occupied 10 x 10 grid of height 1.0 and base thickness 1.0
\* yields 200 vertices and 396 faces, 324 of them top or bottom faces and 72
\* wall faces, and no edge of the mesh is open (in only one face).
C8_TenByTen ==
    pc = "done" =>
        /\ Len(vertices) = 200
        /\ Len(faces) = 396
        /\ Cardinality(SurfaceFaceSet) = 324
        /\ Cardinality(WallFaceSet) = 72
        /\ Cardinality(ActiveQuads) = 81
        /\ Cardinality(BoundaryPairs) = 36
        /\ \A e \in AllEdges : EdgeCount(faces, e) # 1

C8_Witness ==
    /\ pc = "done"
    /\ h_small = 10 /\ w_small = 10
    /\ h > 10 * step
    /\ OccupiedCells = Cells(10, 10)
    /\ \A k \in DOMAIN vertices : vertices[k][3] \in {10 * scale_z, -base_thickness}
    /\ Len(faces) > 0

\* C9: exactly two vertices per occupied cell, the top at
\* (x(j), y(i), height * scale_z) directly followed by the bottom at
\* (x(j), y(i), -base_thickness), in row-major cell order, and none for any
\* other cell; vertex_idx is defined exactly on the occupied cells, which
\* covers every key the face loops read.
C9_TwoVerticesPerOccupiedCell ==
    pc \in {"faces", "walls", "mesh", "done"} =>
        /\ Len(vertices) = 2 * Cardinality(OccupiedCells)
        /\ DOMAIN vertex_idx = KeysOf(OccupiedCells)
        /\ \A c \in OccupiedCells :
               /\ vertex_idx[<<c[1], c[2], "top">>] = 2 * Rank(c)
               /\ vertex_idx[<<c[1], c[2], "bottom">>] = 2 * Rank(c) + 1
               /\ vertices[2 * Rank(c) + 1] =
                      <<2 * c[2] - w_small, 2 * c[1] - h_small,
                        height_map[<<c[1] * step, c[2] * step>>] * scale_z>>
               /\ vertices[2 * Rank(c) + 2] =
                      <<2 * c[2] - w_small, 2 * c[1] - h_small, -base_thickness>>
        /\ \A q \in Cells(h_small - 1, w_small - 1) :
               (ActiveQuad(q[1], q[2]) \/ curr_quad(q[1], q[2])) =>
                   KeysOf(Corners(q[1], q[2])) \subseteq DOMAIN vertex_idx
        /\ \A k \in DOMAIN faces : FaceVerts(faces[k]) \subseteq 0 .. Len(vertices) - 1

C9_Witness ==
    /\ pc = "done"
    /\ ActiveQuads # {}
    /\ \E c \in OccupiedCells : \E d \in DOMAIN alpha_small :
           /\ ~Occupied(d[1], d[2])
           /\ d[1] = c[1] /\ d[2] < c[2]
           /\ Rank(c) > 0
           /\ vertices[2 * Rank(c) + 1][3] # vertices[1][3]

\* C10: a grid with an occupied cell and no active quad yields two vertices per
\* occupied cell and an empty face list; in any grid, the two vertices of an
\* occupied cell that is a corner of no active quad are referenced by no face.
C10_NoFacesWithoutActiveQuad ==
    pc = "done" =>
        /\ (OccupiedCells # {} /\ ActiveQuads = {}) =>
               /\ Len(vertices) = 2 * Cardinality(OccupiedCells)
               /\ faces = << >>
        /\ \A c \in OccupiedCells :
               (\A q \in ActiveQuads : c \notin Corners(q[1], q[2])) =>
                   \A k \in DOMAIN faces :
                       FaceVerts(faces[k]) \cap {2 * Rank(c), 2 * Rank(c) + 1} = {}

C10_Witness ==
    /\ pc = "done"
    /\ ActiveQuads # {}
    /\ \E c \in OccupiedCells : \A q \in ActiveQuads : c \notin Corners(q[1], q[2])

C10_WitnessNoQuad ==
    /\ pc = "done"
    /\ ActiveQuads = {}
    /\ Cardinality(OccupiedCells) >= 3
    /\ h_small >= 2 /\ w_small >= 2

\* =========================================================================
\* create_disc_floret_mesh (generate_disc_floret_stl.py)
\* =========================================================================

\* ------------------------------------------------------------------- bounds
\* the states of the random generator a run may start from
NumSeeds == 2
\* the values a uniform draw takes between its two ends
DrawLevels == 4

\* --------------------------------------------------------- exact arithmetic
Abs(a) == IF a < 0 THEN -a ELSE a

RECURSIVE Gcd(_, _)
Gcd(a, b) == IF b = 0 THEN a ELSE Gcd(b, a % b)

\* the rational n / d in lowest terms, d > 0
Rat(n, d) ==
    LET g == Gcd(Abs(n), Abs(d))
        sg == IF d < 0 THEN -1 ELSE 1
    IN  <<sg * (n \div g), sg * (d \div g)>>

RAdd(a, b) == Rat(a[1] * b[2] + b[1] * a[2], a[2] * b[2])
RSub(a, b) == Rat(a[1] * b[2] - b[1] * a[2], a[2] * b[2])
RMul(a, b) == Rat(a[1] * b[1], a[2] * b[2])
RDiv(a, b) == Rat(a[1] * b[2], a[2] * b[1])

\* int(): truncation, of a value that is never negative here
RInt(a) == a[1] \div a[2]

\* np.sqrt(q): the number coef * sqrt(rad) with coef = 1
Sqrt(q) == [coef |-> <<1, 1>>, rad |-> q]

\* a rational times a root, and a root divided by a rational
SurdTimes(a, sd) == [coef |-> RMul(a, sd.coef), rad |-> sd.rad]
SurdOver(sd, a) == [coef |-> RDiv(sd.coef, a), rad |-> sd.rad]

\* t * t for a root t
SurdSquare(sd) == RMul(RMul(sd.coef, sd.coef), sd.rad)

\* np.pi to six figures
pi == <<314159, 100000>>

\* ------------------------------------------------------------------- source
\* line 107
convexity == <<1, 2>>

\* np.random.uniform(lo, hi) with the generator in state g: a value of
\* [lo, hi) fixed by the generator's seed and the number of draws so far
Uniform(lo, hi, g) ==
    RAdd(lo, RMul(RSub(hi, lo),
                  Rat((g.seed + g.count * (2 * g.seed + 1)) % DrawLevels, DrawLevels)))

\* the generator after k more draws
Drawn(g, k) == [seed |-> g.seed, count |-> g.count + k]

\* lines 101-102: int(np.pi * radius * radius * floret_density * 2.5)
NumFlorets(R, density) ==
    RInt(RMul(RMul(RMul(RMul(pi, R), R), density), <<5, 2>>))

\* SpiralRadius without the factor 0.9
SpiralRadiusToRim(i, n, R) == SurdTimes(R, Sqrt(Rat(i, n)))

\* line 121: radius * 0.9 * np.sqrt(i / num_florets)
SpiralRadius(i, n, R) == SurdTimes(RMul(R, <<9, 10>>), Sqrt(Rat(i, n)))

\* lines 145-146: t = r / radius; z = base_height * (1 + convexity * (1 - t * t))
SurfaceZ(r, R, bh) ==
    LET t == SurdOver(r, R)
    IN  RMul(bh, RAdd(<<1, 1>>, RMul(convexity, RSub(<<1, 1>>, SurdSquare(t)))))

\* lines 118-147: floret i, with the generator in state g when the iteration
\* starts; theta = i * golden_angle is kept as its multiple i, and
\* r * cos(theta) + jitter as the record of its three parts
Floret(i, g) ==
    LET r == SpiralRadius(i, num_florets, radius)
        position_jitter == RMul(floret_radius, <<2, 5>>)
        jx == Uniform(RSub(<<0, 1>>, position_jitter), position_jitter, g)
        jy == Uniform(RSub(<<0, 1>>, position_jitter), position_jitter, Drawn(g, 1))
        size_variation == Uniform(<<7, 10>>, <<13, 10>>, Drawn(g, 2))
        height_variation == Uniform(<<3, 5>>, <<7, 5>>, Drawn(g, 3))
        rotation_angle == Uniform(<<0, 1>>, RMul(<<2, 1>>, pi), Drawn(g, 4))
    IN  [radius |-> floret_radius,
         height |-> floret_height,
         scale |-> <<size_variation, size_variation, height_variation>>,
         rotation |-> rotation_angle,
         translation |->
             <<[fn |-> "cos", r |-> r, theta |-> i, jitter |-> jx],
               [fn |-> "sin", r |-> r, theta |-> i, jitter |-> jy],
               SurfaceZ(r, radius, base_height)>>]

\* ------------------------------------------------------------------ actions
\* lines 93-113
DiscSetup ==
    /\ dpc = "start"
    /\ radius' = RDiv(diameter_mm, <<2, 1>>)
    /\ num_florets' = NumFlorets(RDiv(diameter_mm, <<2, 1>>), floret_density)
    /\ base' = <<RDiv(diameter_mm, <<2, 1>>), base_height, convexity>>
    /\ floret_radius' = RDiv(RDiv(diameter_mm, <<2, 1>>), <<25, 1>>)
    /\ floret_height' = RMul(RDiv(RDiv(diameter_mm, <<2, 1>>), <<25, 1>>), <<3, 2>>)
    /\ dpc' = "loop"
    /\ UNCHANGED <<diameter_mm, base_height, floret_density, rng, florets, disc_floret>>
    /\ UNCHANGED <<height_map, alpha, h, w, pc, h_small, w_small, alpha_small,
                   vertices, vertex_idx, faces, repair>>

\* lines 117-149: one iteration of the loop, i being len(florets)
PlaceFloret ==
    /\ dpc = "loop"
    /\ Len(florets) < num_florets
    /\ florets' = Append(florets, Floret(Len(florets), rng))
    /\ rng' = Drawn(rng, 5)
    /\ UNCHANGED <<diameter_mm, base_height, floret_density, dpc, radius,
                   num_florets, base, floret_radius, floret_height, disc_floret>>
    /\ UNCHANGED <<height_map, alpha, h, w, pc, h_small, w_small, alpha_small,
                   vertices, vertex_idx, faces, repair>>

\* lines 151-158
Combine ==
    /\ dpc = "loop"
    /\ Len(florets) = num_florets
    /\ disc_floret' = <<base>> \o florets
    /\ dpc' = "done"
    /\ UNCHANGED <<diameter_mm, base_height, floret_density, rng, radius,
                   num_florets, base, floret_radius, floret_height, florets>>
    /\ UNCHANGED <<height_map, alpha, h, w, pc, h_small, w_small, alpha_small,
                   vertices, vertex_idx, faces, repair>>

NextDisc ==
    \/ DiscSetup
    \/ PlaceFloret
    \/ Combine

\* create_watertight_mesh is not running
LeafIdle ==
    /\ h = 0
    /\ w = 0
    /\ alpha = << >>
    /\ height_map = << >>
    /\ pc = "idle"
    /\ h_small = 0
    /\ w_small = 0
    /\ alpha_small = << >>
    /\ vertices = << >>
    /\ vertex_idx = << >>
    /\ faces = << >>
    /\ repair = FALSE

DiscDiameters == {<<1, 2>>, <<2, 1>>, <<5, 1>>, <<20, 1>>}

DiscBaseHeights == {<<1, 1>>, <<5, 2>>}

DiscDensities == {<<1, 2>>, <<1, 1>>}

\* the state on entry to create_disc_floret_mesh, line 81
InitDisc ==
    \E d \in DiscDiameters, bh \in DiscBaseHeights, dens \in DiscDensities,
       sd \in 0 .. NumSeeds - 1 :
        /\ LeafIdle
        /\ diameter_mm = d
        /\ base_height = bh
        /\ floret_density = dens
        /\ rng = [seed |-> sd, count |-> 0]
        /\ dpc = "start"
        /\ radius = <<0, 1>>
        /\ num_florets = 0
        /\ base = << >>
        /\ floret_radius = <<0, 1>>
        /\ floret_height = <<0, 1>>
        /\ florets = << >>
        /\ disc_floret = << >>

SpecDisc == InitDisc /\ [][NextDisc]_vars

\* C11: floret i of n = floor(pi * R^2 * density * 2.5) is translated in z by
\* base_height * (1 + convexity * (1 - 0.81 * i / n)), the convex profile at
\* its spiral radius 0.9 * R * sqrt(i / n), whatever the jitter, scale and
\* rotation draws; floret 0 sits at base_height * (1 + convexity); R = 10 mm
\* and density 1.0 give n = 785.
C11_FloretZOnProfile ==
    dpc \in {"loop", "done"} =>
        /\ num_florets =
               RInt(RMul(RMul(pi, RMul(radius, radius)), RMul(floret_density, <<5, 2>>)))
        /\ (radius = <<10, 1>> /\ floret_density = <<1, 1>>) => num_florets = 785
        /\ Len(florets) <= num_florets
        /\ \A k \in DOMAIN florets :
               /\ florets[k].translation[1].r =
                      [coef |-> RMul(<<9, 10>>, radius), rad |-> Rat(k - 1, num_florets)]
               /\ florets[k].translation[3] =
                      RMul(base_height,
                           RAdd(<<1, 1>>,
                                RMul(convexity,
                                     RSub(<<1, 1>>, Rat(81 * (k - 1), 100 * num_florets)))))
        /\ florets # << >> =>
               florets[1].translation[3] = RMul(base_height, RAdd(<<1, 1>>, convexity))
        /\ dpc = "done" => Len(florets) = num_florets

C11_Witness ==
    /\ dpc = "done"
    /\ num_florets = 785
    /\ base_height # <<1, 1>>
    /\ \E k \in DOMAIN florets :
           /\ florets[k].scale # florets[1].scale
           /\ florets[k].rotation # florets[1].rotation
           /\ florets[k].translation[1].jitter # florets[1].translation[1].jitter
           /\ florets[k].translation[3] # florets[1].translation[3]

====
